---- MODULE Spec2Model ----
(***************************************************************************)
(* Model of Anchorom/http-server: the fixed-size ThreadPool of src/lib.rs, *)
(* the accept loop of src/main.rs and the request pipeline                 *)
(* handle_connection -> parse_request -> handlers of src/lib.rs.           *)
(*                                                                         *)
(* Text is modelled as sequences of one-character strings, so that the     *)
(* string operations of the source (lines, split_whitespace, starts_with,  *)
(* ends_with, split, trim_matches) are computed and not assumed.  The byte  *)
(* 0 of the read buffer is the character NUL.                              *)
(***************************************************************************)
EXTENDS Integers, Sequences, FiniteSets, TLC

\* ------------------------------------------------------------------ bounds
\* number of worker threads (Args::threads, a u8 chosen at start-up)
NumWorkers == 2
\* number of tasks handed to execute in one behaviour
MaxTasks == 3
\* modelled length of the read buffer ([0; 1024] in the source)
BufLen == 128

\* --------------------------------------------------------------- literals
NUL == "NUL"
\* a character outside ASCII: two bytes in UTF-8
U00E9 == "U+00E9"
s_GET == <<"G", "E", "T">>
s_POST == <<"P", "O", "S", "T">>
s_PUT == <<"P", "U", "T">>
s_DELETE == <<"D", "E", "L", "E", "T", "E">>
s_HTTP11 == <<"H", "T", "T", "P", "/", "1", ".", "1">>
s_CRLF == <<"\r", "\n">>
s_SP == <<" ">>
s_static == <<"s", "t", "a", "t", "i", "c">>
p_root == <<"/">>
p_index == <<"/", "i", "n", "d", "e", "x", ".", "h", "t", "m", "l">>
p_501 == <<"/", "5", "0", "1", ".", "h", "t", "m", "l">>
p_api_check == <<"/", "a", "p", "i", "/", "c", "h", "e", "c", "k">>
p_api_list == <<"/", "a", "p", "i", "/", "l", "i", "s", "t">>
p_api_echo == <<"/", "a", "p", "i", "/", "e", "c", "h", "o">>
p_api_upload == <<"/", "a", "p", "i", "/", "u", "p", "l", "o", "a", "d">>
p_api_search == <<"/", "a", "p", "i", "/", "s", "e", "a", "r", "c", "h">>
p_search_q == <<"/", "a", "p", "i", "/", "s", "e", "a", "r", "c", "h", "?", "i", "d", "=", "1", "&", "n", "a", "m", "e", "=", "F", "o", "o">>
p_a_html == <<"/", "a", ".", "h", "t", "m", "l">>
p_b_html == <<"/", "b", ".", "h", "t", "m", "l">>
p_a_js == <<"/", "a", ".", "j", "s">>
p_a_json == <<"/", "a", ".", "j", "s", "o", "n">>
p_a_css == <<"/", "a", ".", "c", "s", "s">>
p_nope == <<"/", "n", "o", "p", "e">>
x_html == <<".", "h", "t", "m", "l">>
x_js == <<".", "j", "s">>
x_json == <<".", "j", "s", "o", "n">>
x_css == <<".", "c", "s", "s">>
f_501 == <<"s", "t", "a", "t", "i", "c", "/", "5", "0", "1", ".", "h", "t", "m", "l">>
f_404 == <<"s", "t", "a", "t", "i", "c", "/", "4", "0", "4", ".", "h", "t", "m", "l">>
f_index == <<"s", "t", "a", "t", "i", "c", "/", "i", "n", "d", "e", "x", ".", "h", "t", "m", "l">>
f_data_txt == <<"d", "a", "t", "a", "/", "d", "a", "t", "a", ".", "t", "x", "t">>
f_data_json == <<"d", "a", "t", "a", "/", "d", "a", "t", "a", ".", "j", "s", "o", "n">>
f_error_txt == <<"d", "a", "t", "a", "/", "e", "r", "r", "o", "r", ".", "t", "x", "t">>
f_error_json == <<"d", "a", "t", "a", "/", "e", "r", "r", "o", "r", ".", "j", "s", "o", "n">>
f_not_found_json == <<"d", "a", "t", "a", "/", "n", "o", "t", "_", "f", "o", "u", "n", "d", ".", "j", "s", "o", "n">>
f_a_html == <<"s", "t", "a", "t", "i", "c", "/", "a", ".", "h", "t", "m", "l">>
f_a_js == <<"s", "t", "a", "t", "i", "c", "/", "a", ".", "j", "s">>
f_a_json == <<"s", "t", "a", "t", "i", "c", "/", "a", ".", "j", "s", "o", "n">>
f_a_css == <<"s", "t", "a", "t", "i", "c", "/", "a", ".", "c", "s", "s">>
s_ContentType == <<"C", "o", "n", "t", "e", "n", "t", "-", "T", "y", "p", "e">>
s_app_json == <<"a", "p", "p", "l", "i", "c", "a", "t", "i", "o", "n", "/", "j", "s", "o", "n">>
s_app_form == <<"a", "p", "p", "l", "i", "c", "a", "t", "i", "o", "n", "/", "x", "-", "w", "w", "w", "-", "f", "o", "r", "m", "-", "u", "r", "l", "e", "n", "c", "o", "d", "e", "d">>
k_id == <<"i", "d">>
k_name == <<"n", "a", "m", "e">>
s_id_eq == <<"i", "d", "=">>
s_name_eq == <<"&", "n", "a", "m", "e", "=">>

Digits == {"0", "1", "2", "3", "4", "5", "6", "7", "8", "9"}
Letters == {"a", "b", "c", "d", "e", "f", "g", "h", "i", "j", "k", "l", "m",
            "n", "o", "p", "q", "r", "s", "t", "u", "v", "w", "x", "y", "z",
            "A", "B", "C", "D", "E", "F", "G", "H", "I", "J", "K", "L", "M",
            "N", "O", "P", "Q", "R", "S", "T", "U", "V", "W", "X", "Y", "Z"}

\* ------------------------------------------------------ string operations
\* char::is_whitespace on the characters a request can hold
is_whitespace(c) == c \in {" ", "\t", "\n", "\r", "\f"}

starts_with(s, pre) == Len(s) >= Len(pre) /\ SubSeq(s, 1, Len(pre)) = pre

ends_with(s, suf) ==
    Len(s) >= Len(suf) /\ SubSeq(s, Len(s) - Len(suf) + 1, Len(s)) = suf

\* position of the first occurrence of pat in s at or after from, 0 if none
least_or_zero(hits) ==
    IF hits = {} THEN 0 ELSE CHOOSE i \in hits : \A j \in hits : i <= j

find(s, pat, from) ==
    least_or_zero({i \in from..(Len(s) - Len(pat) + 1) :
                      SubSeq(s, i, i + Len(pat) - 1) = pat})

\* str::split(pat): the pieces between the occurrences of pat, empty ones kept
RECURSIVE split_from(_, _, _)
split_at(s, pat, from, i) ==
    IF i = 0 THEN <<SubSeq(s, from, Len(s))>>
    ELSE <<SubSeq(s, from, i - 1)>> \o split_from(s, pat, i + Len(pat))

split_from(s, pat, from) == split_at(s, pat, from, find(s, pat, from))

split(s, pat) == split_from(s, pat, 1)

\* str::splitn(2, pat): at most two pieces, the second is the whole rest
splitn2_at(s, pat, i) ==
    IF i = 0 THEN <<s>>
    ELSE <<SubSeq(s, 1, i - 1), SubSeq(s, i + Len(pat), Len(s))>>

splitn2(s, pat) == splitn2_at(s, pat, find(s, pat, 1))

\* str::trim_matches(c): c removed from both ends
\* the part of s from the first to the last of the positions to keep
span(s, keep) ==
    IF keep = {} THEN <<>>
    ELSE SubSeq(s, CHOOSE i \in keep : \A j \in keep : i <= j,
                   CHOOSE i \in keep : \A j \in keep : i >= j)

trim_matches(s, c) == span(s, {i \in 1..Len(s) : s[i] # c})

\* str::trim(): whitespace removed from both ends
trim(s) == span(s, {i \in 1..Len(s) : ~is_whitespace(s[i])})

\* str::split_whitespace(): the maximal runs of non-whitespace characters,
\* in the order of their first characters
word_starts(s) ==
    {i \in 1..Len(s) :
        ~is_whitespace(s[i]) /\ (i = 1 \/ is_whitespace(s[i - 1]))}

word_end(s, i) ==
    least_or_zero({j \in i..Len(s) : j = Len(s) \/ is_whitespace(s[j + 1])})

nth_start(starts, k) ==
    CHOOSE i \in starts : Cardinality({j \in starts : j <= i}) = k

words_of(s, starts) ==
    [k \in 1..Cardinality(starts) |->
        SubSeq(s, nth_start(starts, k), word_end(s, nth_start(starts, k)))]

split_whitespace(s) == words_of(s, word_starts(s))

\* str::lines().next(): the text before the first "\n", without the "\r"
\* that precedes it; the whole text when it holds no "\n"
line_until(s, n) ==
    IF n = 0 THEN s
    ELSE IF n > 1 /\ s[n - 1] = "\r" THEN SubSeq(s, 1, n - 2)
    ELSE SubSeq(s, 1, n - 1)

first_line(s) == line_until(s, find(s, <<"\n">>, 1))

\* ------------------------------------------------------------- the buffer
\* stream.read(&mut buffer): the first BufLen bytes the client sent, the rest
\* of the zero-initialised buffer left as it was
read_buffer(data) ==
    [i \in 1..BufLen |-> IF i <= Len(data) THEN data[i] ELSE NUL]

\* Result<T, Box<dyn Error>>, and the unwinding of a panic
Ok(v) == [kind |-> "Ok", value |-> v]
Err(e) == [kind |-> "Err", err |-> e]
Panic(e) == [kind |-> "Panic", err |-> e]

\* the three tokens parts.next() yields, or the error of the missing one
request_parts(parts) ==
    IF Len(parts) < 1 THEN Err("Invalid method")
    ELSE IF Len(parts) < 2 THEN Err("Invalid path")
    ELSE IF Len(parts) < 3 THEN Err("Invalid protocol")
    ELSE Ok([method |-> parts[1], path |-> parts[2], protocol |-> parts[3]])

parse_request(buffer) ==
    IF Len(buffer) = 0 THEN Err("Empty request")
    ELSE request_parts(split_whitespace(first_line(buffer)))

\* ------------------------------------------------------ the backing store
c_501 == <<"<", "h", "1", ">", "5", "0", "1", " ", U00E9, "<", "/", "h", "1", ">">>
c_404 == <<"<", "h", "1", ">", "4", "0", "4", "<", "/", "h", "1", ">">>
c_index == <<"<", "h", "1", ">", "h", "i", "<", "/", "h", "1", ">">>
c_data_txt == <<"o", "k">>
c_data_json == <<"[", "{", "\"", "i", "d", "\"", ":", "1", ",", "\"", "n", "a", "m", "e", "\"", ":", "\"", "F", "o", "o", "\"", "}", ",", "{", "\"", "i", "d", "\"", ":", "2", ",", "\"", "n", "a", "m", "e", "\"", ":", "\"", "B", "a", "r", "\"", "}", "]">>
c_error_txt == <<"b", "a", "d">>
c_error_json == <<"{", "\"", "e", "\"", ":", "1", "}">>
c_not_found_json == <<"{", "\"", "e", "\"", ":", "4", "0", "4", "}">>
c_a_html == <<"<", "p", ">", "a", "<", "/", "p", ">">>
c_a_js == <<"a", "(", ")">>
c_a_json == <<"{", "}">>
c_a_css == <<"a", "{", "}">>
n_Foo == <<"F", "o", "o">>
n_Bar == <<"B", "a", "r">>
j_id == <<"{", "\"", "i", "d", "\"", ":">>
j_name == <<",", "\"", "n", "a", "m", "e", "\"", ":", "\"">>
j_close == <<"\"", "}">>
j_idq == <<"{", "\"", "i", "d", "\"", ":", "\"">>
j_nameq == <<"\"", ",", "\"", "n", "a", "m", "e", "\"", ":", "\"">>

\* the files of a complete installation: path :> contents
Disk ==
    (f_501 :> c_501) @@ (f_404 :> c_404) @@ (f_index :> c_index) @@
    (f_data_txt :> c_data_txt) @@ (f_data_json :> c_data_json) @@
    (f_error_txt :> c_error_txt) @@ (f_error_json :> c_error_json) @@
    (f_not_found_json :> c_not_found_json) @@
    (f_a_html :> c_a_html) @@ (f_a_js :> c_a_js) @@
    (f_a_json :> c_a_json) @@ (f_a_css :> c_a_css)

\* the installation with the files of gone missing or unreadable
DiskWithout(gone) == [f \in (DOMAIN Disk) \ gone |-> Disk[f]]

\* fs::read_to_string(path) on the store files
read_to_string(files, path) ==
    IF path \in DOMAIN files THEN Ok(files[path])
    ELSE Err("No such file or directory")

detect_content_type(path) ==
    IF ends_with(path, x_html) THEN "text/html"
    ELSE IF ends_with(path, x_js) THEN "text/javascript"
    ELSE IF ends_with(path, x_json) THEN "application/json"
    ELSE IF ends_with(path, x_css) THEN "text/css"
    ELSE "text/plain"

Response(status_line, content_type, contents) ==
    [status_line |-> status_line, content_type |-> content_type,
     contents |-> contents]

\* the response made of contents read with `?`: the error when the read failed
page(status_line, content_type, contents) ==
    IF contents.kind # "Ok" THEN contents
    ELSE Ok(Response(status_line, content_type, contents.value))

read_static_file(files, path) ==
    page("HTTP/1.1 200 OK", detect_content_type(path),
         read_to_string(files, path))

\* Regex "id=[0-9]+&name=[a-zA-Z0-9]+" (and r"id=\d+&name=[a-zA-Z0-9]+"),
\* unanchored: some substring of data has that shape
regex_is_match(data) ==
    \E i \in 1..Len(data) : \E j \in (i + 3)..Len(data) :
        /\ SubSeq(data, i, i + 2) = s_id_eq
        /\ \A k \in (i + 3)..j : data[k] \in Digits
        /\ SubSeq(data, j + 1, j + 6) = s_name_eq
        /\ j + 7 <= Len(data)
        /\ data[j + 7] \in Digits \cup Letters

\* body.get(1) of the pieces around the blank lines
second_piece(body) ==
    IF Len(body) >= 2 THEN Ok(body[2])
    ELSE Err("No body found in the request")

\* the text after the first blank line of the request, up to the next one
request_body(buffer) ==
    second_piece(split(trim_matches(buffer, NUL), s_CRLF \o s_CRLF))

echo_response(files, data) ==
    IF data.kind # "Ok" THEN data
    ELSE IF regex_is_match(data.value)
    THEN Ok(Response("HTTP/1.1 200 OK",
                     "application/x-www-form-urlencoded", data.value))
    ELSE page("HTTP/1.1 403 Data format error", "text/plain",
              read_to_string(files, f_error_txt))

handle_echo_request(files, buffer) ==
    echo_response(files, request_body(buffer))

content_type_value(content_type_parts) ==
    IF \/ Len(content_type_parts) # 2
       \/ trim(content_type_parts[1]) # s_ContentType
    THEN Err("Invalid Content-Type header")
    ELSE Ok(trim(content_type_parts[2]))

\* headers.get(4): the fifth line of the request
content_type_line(headers) ==
    IF Len(headers) < 5 THEN Err("No Content-Type header found")
    ELSE content_type_value(split(headers[5], <<":">>))

extract_content_type(buffer) ==
    content_type_line(split(trim_matches(buffer, NUL), s_CRLF))

\* captures.get(i).map_or("", |m| m.as_str()): the pattern has no capture
\* group, so only group 0 (the whole match) exists
capture_or_empty(data, i) == IF i = 0 THEN data ELSE <<>>

upload_response(files, content_type, data) ==
    IF content_type.kind # "Ok" THEN content_type
    ELSE IF content_type.value = s_app_json
    THEN IF data.kind # "Ok" THEN data
         ELSE Ok(Response("HTTP/1.1 200 OK", "application/json", data.value))
    ELSE IF content_type.value = s_app_form
    THEN IF data.kind # "Ok" THEN data
         ELSE IF regex_is_match(data.value)
         THEN Ok(Response("HTTP/1.1 200 OK", "application/json",
                    j_idq \o capture_or_empty(data.value, 1) \o j_nameq
                          \o capture_or_empty(data.value, 2) \o j_close))
         ELSE page("HTTP/1.1 403 Data format error", "application/json",
                   read_to_string(files, f_error_json))
    ELSE page("HTTP/1.1 404 NOT FOUND", "text/html",
              read_to_string(files, f_404))

handle_upload_request(files, buffer) ==
    upload_response(files, extract_content_type(buffer), request_body(buffer))

\* parse_query_params: the key=value pairs of the query, or an error
RECURSIVE query_pairs(_, _)
query_pair(parts, rest) ==
    IF Len(parts) # 2 THEN Err("Invalid query parameter format")
    ELSE IF rest.kind # "Ok" THEN rest
    ELSE Ok(<<parts>> \o rest.value)

query_pairs(params, i) ==
    IF i > Len(params) THEN Ok(<<>>)
    ELSE query_pair(splitn2(params[i], <<"=">>), query_pairs(params, i + 1))

parse_query_params(query) == query_pairs(split(query, <<"&">>), 1)

\* HashMap::get after the inserts of parse_query_params: a later pair with
\* the same key replaces an earlier one; "" when the key is absent
last_value(pairs, at) ==
    IF at = {} THEN <<>>
    ELSE trim(pairs[CHOOSE i \in at : \A j \in at : i >= j][2])

query_get(pairs, key) ==
    last_value(pairs, {i \in 1..Len(pairs) : pairs[i][1] = key})

DigitValue(c) ==
    CASE c = "0" -> 0 [] c = "1" -> 1 [] c = "2" -> 2 [] c = "3" -> 3
      [] c = "4" -> 4 [] c = "5" -> 5 [] c = "6" -> 6 [] c = "7" -> 7
      [] c = "8" -> 8 [] c = "9" -> 9

RECURSIVE digits_value(_, _)
digits_value(s, acc) ==
    IF s = <<>> THEN acc ELSE digits_value(Tail(s), 10 * acc + DigitValue(s[1]))

\* str::parse::<u64>(): digits after an optional "+"; the modelled queries
\* stay far below 2^64
parse_digits(digits) ==
    IF digits = <<>> \/ \E i \in 1..Len(digits) : digits[i] \notin Digits
    THEN Err("invalid digit found in string")
    ELSE Ok(digits_value(digits, 0))

parse_u64(s) == parse_digits(IF Len(s) > 0 /\ s[1] = "+" THEN Tail(s) ELSE s)

DigitChar(d) ==
    CASE d = 0 -> "0" [] d = 1 -> "1" [] d = 2 -> "2" [] d = 3 -> "3"
      [] d = 4 -> "4" [] d = 5 -> "5" [] d = 6 -> "6" [] d = 7 -> "7"
      [] d = 8 -> "8" [] d = 9 -> "9"

RECURSIVE u64_to_string(_)
u64_to_string(n) ==
    IF n < 10 THEN <<DigitChar(n)>>
    ELSE Append(u64_to_string(n \div 10), DigitChar(n % 10))

\* serde_json::from_str on the texts the store can hold: the record array of
\* data/data.json, a JSON value that is no array, or a syntax error
serde_json_from_str(text) ==
    IF text = c_data_json
    THEN Ok([is_array |-> TRUE,
             items |-> <<[id |-> 1, name |-> n_Foo], [id |-> 2, name |-> n_Bar]>>])
    ELSE IF text \in {c_a_json, c_error_json, c_not_found_json}
    THEN Ok([is_array |-> FALSE, items |-> <<>>])
    ELSE Err("expected value")

\* serde_json::to_string of a list of records
RECURSIVE serde_json_items(_, _)
serde_json_items(items, i) ==
    IF i > Len(items) THEN <<>>
    ELSE (IF i > 1 THEN <<",">> ELSE <<>>)
         \o j_id \o u64_to_string(items[i].id) \o j_name \o items[i].name
         \o j_close \o serde_json_items(items, i + 1)

serde_json_to_string(items) == <<"[">> \o serde_json_items(items, 1) \o <<"]">>

\* the response for the records that passed the filter
search_result(files, matching_objects) ==
    IF matching_objects # <<>>
    THEN Ok(Response("HTTP/1.1 200 OK", "application/json",
                     serde_json_to_string(matching_objects)))
    ELSE page("HTTP/1.1 404 NOT FOUND", "application/json",
              read_to_string(files, f_not_found_json))

\* the filter over the records: every record of the store has a numeric id,
\* so id.parse::<u64>().unwrap() is evaluated as soon as there is a record
search_filter(files, items, wanted, name) ==
    IF Len(items) > 0 /\ wanted.kind # "Ok"
    THEN Panic("called Result::unwrap() on an Err value")
    ELSE search_result(files,
            SelectSeq(items, LAMBDA obj :
                obj.id = wanted.value /\ obj.name = name))

search_json(files, json_data, id, name) ==
    IF json_data.kind # "Ok" THEN json_data
    ELSE IF ~json_data.value.is_array THEN Err("JSON data is not an array")
    ELSE search_filter(files, json_data.value.items, parse_u64(id), name)

search_data(files, data, id, name) ==
    IF data.kind # "Ok" THEN data
    ELSE search_json(files, serde_json_from_str(data.value), id, name)

search_params(files, query_params) ==
    IF query_params.kind # "Ok" THEN query_params
    ELSE search_data(files, read_to_string(files, f_data_json),
                     query_get(query_params.value, k_id),
                     query_get(query_params.value, k_name))

search_query(files, path_parts) ==
    search_params(files, IF Len(path_parts) = 2
                         THEN parse_query_params(path_parts[2]) ELSE Ok(<<>>))

handle_search_request(files, path) == search_query(files, split(path, <<"?">>))

\* ------------------------------------------------------ handle_connection
\* the test that guards the 501 branch
method_not_supported_mutant(method) == method = s_PUT

method_not_supported(method) == method # s_GET \/ method # s_POST

\* the arm of the match on (method, path) that is taken: the first that fits
match_arm(method, path) ==
    IF method = s_GET /\ (path = p_root \/ path = p_index) THEN "index"
    ELSE IF method = s_GET /\ path = p_501 THEN "page_501"
    ELSE IF method = s_GET /\ path = p_api_check THEN "api_check"
    ELSE IF method = s_GET /\ path = p_api_list THEN "api_list"
    ELSE IF method = s_POST /\ path = p_api_echo THEN "api_echo"
    ELSE IF method = s_POST /\ path = p_api_upload THEN "api_upload"
    ELSE IF method = s_GET /\ starts_with(path, p_api_search) THEN "api_search"
    ELSE IF method = s_GET /\ ends_with(path, x_html) THEN "static_html"
    ELSE IF method = s_GET /\ ends_with(path, x_js) THEN "static_js"
    ELSE IF method = s_GET /\ ends_with(path, x_json) THEN "static_json"
    ELSE IF method = s_GET /\ ends_with(path, x_css) THEN "static_css"
    ELSE "not_found"

\* the page of a fixed file under a fixed status line
fixed_page(files, status_line, content_type, file) ==
    page(status_line, content_type, read_to_string(files, file))

\* the body of the arm that is taken
arm_response(files, buffer, arm, path) ==
    CASE arm = "index" -> read_static_file(files, f_index)
      [] arm = "page_501" ->
            fixed_page(files, "HTTP/1.1 501 Not Implemented",
                       detect_content_type(f_404), f_501)
      [] arm = "api_check" -> read_static_file(files, f_data_txt)
      [] arm = "api_list" -> read_static_file(files, f_data_json)
      [] arm = "api_echo" -> handle_echo_request(files, buffer)
      [] arm = "api_upload" -> handle_upload_request(files, buffer)
      [] arm = "api_search" -> handle_search_request(files, path)
      [] arm \in {"static_html", "static_js", "static_json", "static_css"} ->
            read_static_file(files, s_static \o path)
      [] OTHER ->
            fixed_page(files, "HTTP/1.1 404 NOT FOUND",
                       detect_content_type(f_404), f_404)

\* String::len(): the number of bytes of the UTF-8 encoding
utf8_len(c) == IF c = U00E9 THEN 2 ELSE 1

RECURSIVE bytes_from(_, _)
bytes_from(text, i) ==
    IF i > Len(text) THEN 0 ELSE utf8_len(text[i]) + bytes_from(text, i + 1)

byte_len(text) == bytes_from(text, 1)

\* format!("{}\r\nContent-Type: {}\r\nContent-Length: {}\r\n\r\n{}", ...)
format_response_mutant(response) ==
    [status_line |-> response.status_line,
     content_type |-> response.content_type,
     content_length |-> Len(response.contents),
     body |-> response.contents]

format_response(response) ==
    [status_line |-> response.status_line,
     content_type |-> response.content_type,
     content_length |-> byte_len(response.contents),
     body |-> response.contents]

\* stream.write_all / stream.flush of the response; the value of an Ok
\* result records the branch taken and the bytes written
write_response(stream, arm, result) ==
    IF result.kind # "Ok" THEN result
    ELSE IF stream.io = "write_err" THEN Err("write failed")
    ELSE Ok([arm |-> arm, response |-> result.value,
             written |-> format_response(result.value)])

\* the branch of the if, or the arm of the match, with its response
respond(stream, files, buffer, path, arm) ==
    write_response(stream, arm,
        IF arm = "not_implemented"
        THEN fixed_page(files, "HTTP/1.1 501 OK", "text/html", f_501)
        ELSE arm_response(files, buffer, arm, path))

route(stream, files, buffer, request) ==
    IF request.kind # "Ok" THEN request
    ELSE respond(stream, files, buffer, request.value.path,
                 IF method_not_supported(request.value.method)
                 THEN "not_implemented"
                 ELSE match_arm(request.value.method, request.value.path))

\* the arm of the match that a parsed request selects, with its response
\* formatted and written
serve_arm(stream, files, buffer, request) ==
    respond(stream, files, buffer, request.value.path,
            match_arm(request.value.method, request.value.path))

serve_buffer(stream, files, buffer) ==
    route(stream, files, buffer, parse_request(buffer))

\* a stream is what the client sent (data) and how the socket behaves (io):
\* "ok", "read_err" (stream.read fails) or "write_err" (write_all/flush fails)
handle_connection(stream, files) ==
    IF stream.io = "read_err" THEN Err("read failed")
    ELSE serve_buffer(stream, files, read_buffer(stream.data))

\* the numeric code of the status lines of the source
StatusCode(status_line) ==
    CASE status_line = "HTTP/1.1 200 OK" -> 200
      [] status_line = "HTTP/1.1 501 OK" -> 501
      [] status_line = "HTTP/1.1 501 Not Implemented" -> 501
      [] status_line = "HTTP/1.1 404 NOT FOUND" -> 404
      [] status_line = "HTTP/1.1 403 Data format error" -> 403

\* ------------------------------------------------------------ the inputs
Methods == {s_GET, s_POST, s_PUT, s_DELETE}
Paths == {p_root, p_index, p_501, p_api_check, p_api_list, p_api_echo,
          p_api_upload, p_search_q, p_a_html, p_b_html, p_a_js, p_a_json,
          p_a_css, p_nope}

\* a request line with its three tokens, followed by the blank line
request_line(method, path) ==
    method \o s_SP \o path \o s_SP \o s_HTTP11 \o s_CRLF \o s_CRLF

\* what a client can send that is no full request line: nothing, a method
\* alone, a method and a path, with and without a line end
Malformed == {<<>>, s_GET, s_GET \o s_SP \o p_root,
              s_PUT \o s_SP \o p_nope \o s_CRLF}

\* a full request line that is not followed by a line end
Unterminated == {s_GET \o s_SP \o p_root \o s_SP \o s_HTTP11,
                 s_PUT \o s_SP \o p_nope \o s_SP \o s_HTTP11}

Streams ==
    [data : {request_line(m, p) : m \in Methods, p \in Paths}
                \cup Malformed \cup Unterminated,
     io : {"ok", "read_err", "write_err"}]

\* the stores of the request pipeline: any of these files may be missing
Volatile == {f_501, f_404, f_index, f_a_html}
Stores == {DiskWithout(gone) : gone \in SUBSET Volatile}

\* ------------------------------------------- the inputs of the handlers
h_host == <<"H", "o", "s", "t", ":", " ", "x">>
h_a == <<"A", ":", " ", "1">>
h_b == <<"B", ":", " ", "2">>
h_content_type == <<"C", "o", "n", "t", "e", "n", "t", "-", "T", "y", "p", "e", ":", " ">>
s_text_plain == <<"t", "e", "x", "t", "/", "p", "l", "a", "i", "n">>
b_json == <<"{", "\"", "a", "\"", ":", "1", "}">>
b_form == <<"i", "d", "=", "7", "&", "n", "a", "m", "e", "=", "b", "o", "b">>
b_bad == <<"i", "d", "=", "x", "&", "n", "a", "m", "e", "=", "b", "o", "b">>
b_loose == <<"x", "i", "d", "=", "7", "&", "n", "a", "m", "e", "=", "b", "o", "b", "!">>
b_accent == <<"i", "d", "=", "7", "&", "n", "a", "m", "e", "=", "b", "o", "b", U00E9>>
b_json_two == <<"{", "\"", "a", "\"", ":", "1", "}", "\r", "\n", "\r", "\n", "{", "\"", "b", "\"", ":", "2", "}">>
b_form_two == <<"i", "d", "=", "7", "&", "n", "a", "m", "e", "=", "b", "o", "b", "\r", "\n", "\r", "\n", "i", "d", "=", "8">>
q_foo == <<"?", "i", "d", "=", "1", "&", "n", "a", "m", "e", "=", "F", "o", "o">>
q_bar == <<"?", "i", "d", "=", "2", "&", "n", "a", "m", "e", "=", "B", "a", "r">>
q_none == <<"?", "i", "d", "=", "9", "&", "n", "a", "m", "e", "=", "F", "o", "o">>
q_wrong_name == <<"?", "i", "d", "=", "1", "&", "n", "a", "m", "e", "=", "B", "a", "r">>
q_bad_id == <<"?", "i", "d", "=", "x", "&", "n", "a", "m", "e", "=", "F", "o", "o">>
q_no_id == <<"?", "n", "a", "m", "e", "=", "F", "o", "o">>
q_no_name == <<"?", "i", "d", "=", "1">>
q_plus == <<"?", "i", "d", "=", "+", "1", "&", "n", "a", "m", "e", "=", "F", "o", "o">>
q_zero == <<"?", "i", "d", "=", "0", "1", "&", "n", "a", "m", "e", "=", "F", "o", "o">>
q_no_value == <<"?", "i", "d">>
q_twice == <<"?", "i", "d", "=", "2", "&", "n", "a", "m", "e", "=", "B", "a", "r", "&", "i", "d", "=", "1", "&", "n", "a", "m", "e", "=", "F", "o", "o">>

\* the bodies a client posts: JSON, a form, a form with a letter for the id,
\* a form inside other text, a form with a character outside ASCII, nothing,
\* and bodies that hold a blank line
Bodies == {b_json, b_form, b_bad, b_loose, b_accent, <<>>, b_json_two,
           b_form_two}
ContentTypes == {s_app_json, s_app_form, s_text_plain}
Queries == {q_foo, q_bar, q_none, q_wrong_name, q_bad_id, q_no_id, q_no_name,
            q_plus, q_zero, q_no_value, q_twice, <<>>}

\* POST /api/echo with one header line
echo_request(body) ==
    s_POST \o s_SP \o p_api_echo \o s_SP \o s_HTTP11 \o s_CRLF
        \o h_host \o s_CRLF \o s_CRLF \o body

\* POST /api/upload whose Content-Type header is the fifth line
upload_request(content_type, body) ==
    s_POST \o s_SP \o p_api_upload \o s_SP \o s_HTTP11 \o s_CRLF
        \o h_host \o s_CRLF \o h_a \o s_CRLF \o h_b \o s_CRLF
        \o h_content_type \o content_type \o s_CRLF \o s_CRLF \o body

\* GET /api/search with a query string
search_request(query) ==
    s_GET \o s_SP \o p_api_search \o query \o s_SP \o s_HTTP11 \o s_CRLF
        \o s_CRLF

HandlerStreams ==
    [data : {echo_request(b) : b \in Bodies}
                \cup {upload_request(t, b) : t \in ContentTypes, b \in Bodies}
                \cup {search_request(q) : q \in Queries}
                \cup {request_line(s_GET, p) :
                        p \in {p_root, p_501, p_api_check, p_api_list,
                               p_a_js, p_nope}}
                \cup {request_line(s_PUT, p_nope)},
     io : {"ok", "write_err"}]

\* the stores of the handlers: any of the data files may be missing
HandlerVolatile == {f_data_json, f_not_found_json, f_error_txt, f_error_json}
HandlerStores == {DiskWithout(gone) : gone \in SUBSET HandlerVolatile}

\* the closures handed to execute: the one of main, which serves a stream and
\* leaves the process through exit_with_error when handle_connection fails,
\* and, as ThreadPool::execute takes any FnOnce, one that panics
ServeJob(stream) == [closure |-> "serve", stream |-> stream]
PanicJob == [closure |-> "panic", stream |-> [data |-> <<>>, io |-> "ok"]]

PoolJobs == {ServeJob([data |-> request_line(s_PUT, p_nope), io |-> "ok"]),
             ServeJob([data |-> s_GET, io |-> "ok"]),
             PanicJob}

\* the stores the pool runs against: complete, or without the 501 page
PoolStores == {Disk, DiskWithout({f_501})}

\* how a job ends: "returned", "exit" (exit_with_error) or "panicked"
job_end(result) ==
    IF result.kind = "Ok" THEN "returned"
    ELSE IF result.kind = "Err" THEN "exit"
    ELSE "panicked"

run_job(job, store) ==
    IF job.closure = "panic" THEN "panicked"
    ELSE job_end(handle_connection(job.stream, store))

\* ------------------------------------------------------------- the state
VARIABLES
    files,        \* the backing store: path :> contents of the readable files
    tasks,        \* the jobs execute has sent, in order, each with the
                  \* number of times it was started and its status
    queue,        \* the channel: ids of the jobs sent and not yet received
    sender,       \* ThreadPool::sender: "Some" or "None"
    lock,         \* the worker that holds the Mutex of the receiver, or 0
    wpc,          \* per worker: "idle" (before lock), "recv" (in recv, holding
                  \* the lock), "run" (in job()), "exited", "panicked"
    wjob,         \* per worker: the id of the job it runs, or 0
    mainPc,       \* the thread that owns the pool: "accept", "join", "done",
                  \* "drop_panicked"
    joined,       \* number of workers drop has joined
    exited,       \* the process has ended
    dequeued,     \* ids of the jobs, in the order recv returned them
    completed,    \* ids of the jobs, in the order they returned
    queuedAtDrop, \* the channel as it was when drop began
    lastExecute,  \* result of the last call of execute: "None", "Ok", "Err"
    conn,         \* request pipeline: the stream handed to handle_connection
    outcome,      \* request pipeline: NoOutcome before the first stream,
                  \* Pending while a stream waits, then the result
    handler,      \* request pipeline: the code that produced the outcome:
                  \* "handle_connection" as a whole, or its "match" alone
    jobEnd        \* how each closure ends when a worker calls it, on the
                  \* store of this run, which the pool never changes

vars == <<files, tasks, queue, sender, lock, wpc, wjob, mainPc, joined, exited,
          dequeued, completed, queuedAtDrop, lastExecute, conn, outcome,
          handler, jobEnd>>
poolVars == <<tasks, queue, sender, lock, wpc, wjob, mainPc, joined, exited,
              dequeued, completed, queuedAtDrop, lastExecute, jobEnd>>

Workers == 1..NumWorkers
NoOutcome == [kind |-> "None"]
Pending == [kind |-> "Pending"]
NoConn == [data |-> <<>>, io |-> "ok"]

\* ThreadPool::new(size): the channel is empty, every worker is spawned
PoolInit ==
    /\ tasks = <<>>
    /\ queue = <<>>
    /\ sender = "Some"
    /\ lock = 0
    /\ wpc = [w \in Workers |-> "idle"]
    /\ wjob = [w \in Workers |-> 0]
    /\ mainPc = "accept"
    /\ joined = 0
    /\ exited = FALSE
    /\ dequeued = <<>>
    /\ completed = <<>>
    /\ queuedAtDrop = <<>>
    /\ lastExecute = "None"

Init ==
    /\ PoolInit
    /\ files \in PoolStores
    /\ conn = NoConn
    /\ outcome = NoOutcome
    /\ handler = "none"
    /\ jobEnd = [job \in PoolJobs |-> run_job(job, files)]

\* the receiver lives in an Arc held by the worker closures only: it is
\* dropped when the last worker thread has ended
receiver_alive == \E w \in Workers : wpc[w] \notin {"exited", "panicked"}

SetStatus(t, s) == [tasks EXCEPT ![t].status = s]

\* the jobs still in the channel are dropped with the receiver
Discard(ts, q) ==
    [t \in DOMAIN ts |->
        IF \E i \in DOMAIN q : q[i] = t
        THEN [ts[t] EXCEPT !.status = "discarded"] ELSE ts[t]]

\* main: a connection is accepted and its closure handed to execute; a send
\* that fails makes execute return Err, and main leaves the process
Execute(job) ==
    /\ ~exited /\ mainPc = "accept"
    /\ Len(tasks) < MaxTasks
    /\ IF receiver_alive
       THEN /\ tasks' = Append(tasks, [job |-> job, runs |-> 0, status |-> "queued"])
            /\ queue' = Append(queue, Len(tasks) + 1)
            /\ lastExecute' = "Ok"
            /\ UNCHANGED exited
       ELSE /\ lastExecute' = "Err"
            /\ exited' = TRUE
            /\ UNCHANGED <<tasks, queue>>
    /\ UNCHANGED <<files, sender, lock, wpc, wjob, mainPc, joined, dequeued,
                   completed, queuedAtDrop, conn, outcome,
                   handler, jobEnd>>

\* Drop for ThreadPool: drop(self.sender.take())
BeginDrop ==
    /\ ~exited /\ mainPc = "accept"
    /\ sender' = "None"
    /\ mainPc' = "join"
    /\ queuedAtDrop' = queue
    /\ UNCHANGED <<files, tasks, queue, lock, wpc, wjob, joined, exited,
                   dequeued, completed, lastExecute, conn, outcome,
                   handler, jobEnd>>

\* Drop for ThreadPool: thread.join() of the next worker returns Ok
JoinOk ==
    /\ ~exited /\ mainPc = "join"
    /\ wpc[joined + 1] = "exited"
    /\ joined' = joined + 1
    /\ mainPc' = IF joined + 1 = NumWorkers THEN "done" ELSE "join"
    /\ UNCHANGED <<files, tasks, queue, sender, lock, wpc, wjob, exited,
                   dequeued, completed, queuedAtDrop, lastExecute, conn, outcome,
                   handler, jobEnd>>

\* Drop for ThreadPool: thread.join() returns Err for a worker that panicked,
\* unwrap panics in the thread that owns the pool, and the process ends
JoinPanic ==
    /\ ~exited /\ mainPc = "join"
    /\ wpc[joined + 1] = "panicked"
    /\ mainPc' = "drop_panicked"
    /\ exited' = TRUE
    /\ UNCHANGED <<files, tasks, queue, sender, lock, wpc, wjob, joined,
                   dequeued, completed, queuedAtDrop, lastExecute, conn, outcome,
                   handler, jobEnd>>

\* Worker: receiver.lock().unwrap()
Lock(w) ==
    /\ ~exited /\ wpc[w] = "idle" /\ lock = 0
    /\ lock' = w
    /\ wpc' = [wpc EXCEPT ![w] = "recv"]
    /\ UNCHANGED <<files, tasks, queue, sender, wjob, mainPc, joined, exited,
                   dequeued, completed, queuedAtDrop, lastExecute, conn, outcome,
                   handler, jobEnd>>

\* Receiver::recv: a message while there is one, Err once the channel is
\* empty and the sender is gone, and no return otherwise
recv_mutant(q, snd) ==
    IF snd = "None" THEN "disconnected" ELSE IF q # <<>> THEN "message" ELSE "block"

recv(q, snd) ==
    IF q # <<>> THEN "message" ELSE IF snd = "None" THEN "disconnected" ELSE "block"

\* the message recv hands out, and the channel that is left
take_mutant(q) == [job |-> q[Len(q)], rest |-> SubSeq(q, 1, Len(q) - 1)]

take(q) == [job |-> Head(q), rest |-> Tail(q)]

\* the holder of the lock once the let statement has ended: the guard is a
\* temporary of that statement and is dropped with it
holder_after_let_mutant(w) == w

holder_after_let(w) == 0

\* where the worker is once the let statement has ended: it calls job()
\* itself, on its own thread
after_let_mutant == "idle"

after_let == "run"

\* Worker: recv returns Ok(job); the guard of the lock is dropped at the end
\* of the let statement, before job() is called
RecvJob(w) ==
    /\ ~exited /\ wpc[w] = "recv"
    /\ recv(queue, sender) = "message"
    /\ LET t == take(queue).job
       IN  /\ queue' = take(queue).rest
           /\ wjob' = [wjob EXCEPT ![w] = t]
           /\ tasks' = [tasks EXCEPT ![t].runs = @ + 1, ![t].status = "running"]
           /\ dequeued' = Append(dequeued, t)
    /\ lock' = holder_after_let(w)
    /\ wpc' = [wpc EXCEPT ![w] = after_let]
    /\ UNCHANGED <<files, sender, mainPc, joined, exited, completed,
                   queuedAtDrop, lastExecute, conn, outcome,
                   handler, jobEnd>>

\* Worker: recv returns Err, the loop breaks and the thread ends
RecvClosed(w) ==
    /\ ~exited /\ wpc[w] = "recv"
    /\ recv(queue, sender) = "disconnected"
    /\ lock' = 0
    /\ wpc' = [wpc EXCEPT ![w] = "exited"]
    /\ LET last == \A v \in Workers \ {w} : wpc[v] \in {"exited", "panicked"}
       IN  /\ tasks' = IF last THEN Discard(tasks, queue) ELSE tasks
           /\ queue' = IF last THEN <<>> ELSE queue
    /\ UNCHANGED <<files, sender, wjob, mainPc, joined, exited, dequeued,
                   completed, queuedAtDrop, lastExecute, conn, outcome,
                   handler, jobEnd>>

\* Worker: job() returns and the loop goes round
RunReturn(w) ==
    /\ ~exited /\ wpc[w] = "run"
    /\ jobEnd[tasks[wjob[w]].job] = "returned"
    /\ tasks' = SetStatus(wjob[w], "done")
    /\ completed' = Append(completed, wjob[w])
    /\ wjob' = [wjob EXCEPT ![w] = 0]
    /\ wpc' = [wpc EXCEPT ![w] = "idle"]
    /\ UNCHANGED <<files, queue, sender, lock, mainPc, joined, exited, dequeued,
                   queuedAtDrop, lastExecute, conn, outcome,
                   handler, jobEnd>>

\* Worker: inside job(), handle_connection returns Err and the closure of
\* main calls exit_with_error: exit(1) ends the process
RunExit(w) ==
    /\ ~exited /\ wpc[w] = "run"
    /\ jobEnd[tasks[wjob[w]].job] = "exit"
    /\ tasks' = SetStatus(wjob[w], "failed")
    /\ exited' = TRUE
    /\ UNCHANGED <<files, queue, sender, lock, wpc, wjob, mainPc, joined,
                   dequeued, completed, queuedAtDrop, lastExecute, conn, outcome,
                   handler, jobEnd>>

\* Worker: job() panics; nothing catches the unwinding, the thread ends and
\* its clone of the receiver is dropped
RunPanic(w) ==
    /\ ~exited /\ wpc[w] = "run"
    /\ jobEnd[tasks[wjob[w]].job] = "panicked"
    /\ wpc' = [wpc EXCEPT ![w] = "panicked"]
    /\ LET last == \A v \in Workers \ {w} : wpc[v] \in {"exited", "panicked"}
           ts == SetStatus(wjob[w], "panicked")
       IN  /\ tasks' = IF last THEN Discard(ts, queue) ELSE ts
           /\ queue' = IF last THEN <<>> ELSE queue
    /\ UNCHANGED <<files, sender, lock, wjob, mainPc, joined, exited, dequeued,
                   completed, queuedAtDrop, lastExecute, conn, outcome,
                   handler, jobEnd>>

Next ==
    \/ \E job \in PoolJobs : Execute(job)
    \/ BeginDrop
    \/ JoinOk
    \/ JoinPanic
    \/ \E w \in Workers : Lock(w)
    \/ \E w \in Workers : RecvJob(w)
    \/ \E w \in Workers : RecvClosed(w)
    \/ \E w \in Workers : RunReturn(w)
    \/ \E w \in Workers : RunExit(w)
    \/ \E w \in Workers : RunPanic(w)

Spec == Init /\ [][Next]_vars

\* one step of the loop of worker w
WorkerStep(w) ==
    \/ Lock(w)
    \/ RecvJob(w)
    \/ RecvClosed(w)
    \/ RunReturn(w)
    \/ RunExit(w)
    \/ RunPanic(w)

\* one step of the loop of drop over the workers
Join == JoinOk \/ JoinPanic

\* the operating system schedules every thread that can run: each worker
\* thread, and the thread that drops the pool
SpecFair ==
    /\ Spec
    /\ \A w \in Workers : WF_vars(WorkerStep(w))
    /\ WF_vars(Join)

\* --------------------------------------------- the request pipeline alone
InitHandle ==
    /\ PoolInit
    /\ files \in Stores
    /\ conn = NoConn
    /\ outcome = NoOutcome
    /\ handler = "none"
    /\ jobEnd = [job \in PoolJobs |-> run_job(job, files)]

\* a connection arrives
NextStream ==
    /\ outcome # Pending
    /\ conn' \in Streams
    /\ outcome' = Pending
    /\ UNCHANGED <<files, handler>>
    /\ UNCHANGED poolVars

\* handle_connection runs on the stream
Handle ==
    /\ outcome = Pending
    /\ outcome' = handle_connection(conn, files)
    /\ handler' = "handle_connection"
    /\ UNCHANGED <<files, conn>>
    /\ UNCHANGED poolVars

NextHandle == NextStream \/ Handle

SpecHandle == InitHandle /\ [][NextHandle]_vars

\* --------------------------------------------------- the handlers' spec
InitHandlers ==
    /\ PoolInit
    /\ files \in HandlerStores
    /\ conn = NoConn
    /\ outcome = NoOutcome
    /\ handler = "none"
    /\ jobEnd = [job \in PoolJobs |-> run_job(job, files)]

\* a request for one of the handlers arrives
NextRequest ==
    /\ outcome # Pending
    /\ conn' \in HandlerStreams
    /\ outcome' = Pending
    /\ UNCHANGED <<files, handler>>
    /\ UNCHANGED poolVars

\* the match of handle_connection runs on the parsed request: the handler of
\* the selected arm produces the response, which is formatted and written
ServeArm ==
    /\ outcome = Pending
    /\ parse_request(read_buffer(conn.data)).kind = "Ok"
    /\ outcome' = serve_arm(conn, files, read_buffer(conn.data),
                            parse_request(read_buffer(conn.data)))
    /\ handler' = "match"
    /\ UNCHANGED <<files, conn>>
    /\ UNCHANGED poolVars

NextHandlers == NextRequest \/ Handle \/ ServeArm

SpecHandlers == InitHandlers /\ [][NextHandlers]_vars

\* =================================================================== claims
Terminated(w) == wpc[w] \in {"exited", "panicked"}

\* no worker will ever take another job
Quiescent == exited \/ \A w \in Workers : Terminated(w)

\* C1: every task submitted through execute is run exactly once by exactly
\* one worker: never started twice, and started once when the workers have
\* nothing left they can do.
C1_EveryTaskRunExactlyOnce ==
    /\ \A t \in DOMAIN tasks : tasks[t].runs <= 1
    /\ Quiescent => \A t \in DOMAIN tasks : tasks[t].runs = 1

\* C2: when the drop of the pool has returned, every task that was sent
\* before it began has finished running and the channel is empty.
C2_ShutdownAfterQueuedTasks ==
    mainPc = "done" =>
        /\ queue = <<>>
        /\ \A t \in DOMAIN tasks : tasks[t].status = "done" /\ tasks[t].runs = 1

\* drop has returned, and two tasks were still in the channel when it began
C2_Witness ==
    /\ mainPc = "done"
    /\ Len(queuedAtDrop) >= 2
    /\ \A i \in DOMAIN queuedAtDrop : tasks[queuedAtDrop[i]].status = "done"

\* C3: execute returns an error only once the shutdown of the pool has begun
\* (and then adds no task); it fails in no other situation.
C3_ExecuteFailsOnlyAfterShutdown ==
    lastExecute = "Err" => sender = "None"

\* the request line handle_connection has parsed from the stream under test
Parsed == parse_request(read_buffer(conn.data))
Handled == outcome.kind \in {"Ok", "Err", "Panic"}
Answered == outcome.kind = "Ok"
AnswerStatus == StatusCode(outcome.value.written.status_line)
OtherMethod ==
    Parsed.kind = "Ok" /\ Parsed.value.method \notin {s_GET, s_POST}

\* C4 as stated: every request whose method is neither GET nor POST is
\* answered with status 501, whatever its path.
C4_Original ==
    (Handled /\ OtherMethod) => (Answered /\ AnswerStatus = 501)

\* C4 as amended: a request whose method is neither GET nor POST is answered
\* with status 501, whatever its path, when the socket can be read and written
\* and static/501.html can be read; otherwise handle_connection returns an
\* error and nothing is written.
C4_OtherMethod501 ==
    (Handled /\ OtherMethod) =>
        IF conn.io = "ok" /\ f_501 \in DOMAIN files
        THEN Answered /\ AnswerStatus = 501
        ELSE outcome.kind = "Err"

\* a DELETE of /index.html, a path that has a route of its own, is answered 501
C4_Witness ==
    /\ Answered
    /\ OtherMethod
    /\ Parsed.value.method = s_DELETE
    /\ Parsed.value.path = p_index
    /\ AnswerStatus = 501

\* the environment of the stream under test does not fail: the socket works
\* and the fixed pages are readable
Healthy ==
    /\ conn.io = "ok"
    /\ {f_501, f_404, f_index} \subseteq DOMAIN files

\* C5: every valid GET / and GET /index.html request is answered with status
\* 200 and content type text/html.
C5_IndexIs200Html ==
    \A p \in {p_root, p_index} :
        (Handled /\ Healthy /\ conn.data = request_line(s_GET, p)) =>
            /\ Answered
            /\ AnswerStatus = 200
            /\ outcome.value.written.content_type = "text/html"

\* C6: a task that fails does not terminate its worker: while the pool is
\* open all N workers are alive, whatever tasks have failed.
C6_WorkersSurviveFailingTasks ==
    sender = "Some" => \A w \in Workers : ~exited /\ ~Terminated(w)

\* C7: a connection whose handling failed with an error that has no HTTP
\* mapping is the only thing affected: the process keeps running.
C7_ProcessSurvivesFailedConnection ==
    (\E t \in DOMAIN tasks : tasks[t].status = "failed") => ~exited

\* C8: tasks are handed to the workers in the order they were enqueued: the
\* i-th job recv returns is the i-th job execute sent.
C8_FifoHandOff ==
    \A i \in DOMAIN dequeued : dequeued[i] = i

\* two tasks were handed out in order, and the second one finished first
C8_Witness ==
    /\ Len(dequeued) >= 2
    /\ completed # <<>>
    /\ completed[1] = 2
    /\ tasks[1].status = "running"

\* the rule the router is said to apply to a GET or POST request, in the
\* order exact routes, /api/search prefix, static suffixes, default 404
first_matching_rule(method, path) ==
    IF \/ method = s_GET /\ path \in {p_root, p_index, p_api_check, p_api_list}
       \/ method = s_POST /\ path \in {p_api_echo, p_api_upload}
    THEN "exact"
    ELSE IF method = s_GET /\ starts_with(path, p_api_search) THEN "search_prefix"
    ELSE IF method = s_GET /\ \E x \in {x_html, x_js, x_json, x_css} : ends_with(path, x)
    THEN "static_suffix"
    ELSE "default_404"

\* the rule a branch of handle_connection belongs to
arm_rule(arm) ==
    CASE arm \in {"index", "page_501", "api_check", "api_list", "api_echo",
                  "api_upload"} -> "exact"
      [] arm = "api_search" -> "search_prefix"
      [] arm \in {"static_html", "static_js", "static_json", "static_css"} ->
            "static_suffix"
      [] arm = "not_found" -> "default_404"
      [] OTHER -> "not_implemented_501"

\* C9: for every GET or POST request the router selects the first rule that
\* matches in the fixed order, and a request that matches none is answered 404.
C9_FirstMatchingRule ==
    \A m \in {s_GET, s_POST} : \A p \in Paths \ {p_501} :
        (Answered /\ conn.data = request_line(m, p)) =>
            /\ arm_rule(outcome.value.arm) = first_matching_rule(m, p)
            /\ first_matching_rule(m, p) = "default_404" => AnswerStatus = 404

\* C10: a GET of a path ending in .html, .js, .json or .css whose file is
\* absent from the store is answered 404 with the not-found page as its body.
C10_MissingStaticFileIs404 ==
    \A p \in Paths :
        (/\ Handled /\ Healthy
         /\ conn.data = request_line(s_GET, p)
         /\ \E x \in {x_html, x_js, x_json, x_css} : ends_with(p, x)
         /\ (s_static \o p) \notin DOMAIN files) =>
            /\ Answered
            /\ AnswerStatus = 404
            /\ outcome.value.written.body = files[f_404]
\* C11: every response that is written carries a Content-Length equal to the
\* byte length of its body and a status code among 200, 403, 404 and 501,
\* whichever handler produced it.
C11_ResponseShape ==
    Answered =>
        /\ outcome.value.written.content_length
              = byte_len(outcome.value.written.body)
        /\ AnswerStatus \in {200, 403, 404, 501}

\* the echo handler answers 200 with a body whose bytes outnumber its
\* characters
C11_Witness ==
    /\ Answered
    /\ handler = "match"
    /\ outcome.value.arm = "api_echo"
    /\ AnswerStatus = 200
    /\ outcome.value.written.body = b_accent
    /\ outcome.value.written.content_length = Len(b_accent) + 1

\* the stream under test was served by the match alone, on a working socket
MatchServed == Handled /\ handler = "match" /\ conn.io = "ok"

\* C12: a POST /api/upload whose Content-Type is application/json is answered
\* with status 200 and a body equal to the request body, for every body that
\* fits the buffer.
C12_JsonUploadEchoed ==
    \A b \in Bodies :
        (MatchServed /\ conn.data = upload_request(s_app_json, b)
                     /\ Len(conn.data) <= BufLen) =>
            /\ Answered
            /\ AnswerStatus = 200
            /\ outcome.value.written.body = b

\* the JSON objects that carry the id 7 and the name bob
form_object_text == j_idq \o <<"7">> \o j_nameq \o <<"b", "o", "b">> \o j_close
form_object_number == j_id \o <<"7">> \o j_name \o <<"b", "o", "b">> \o j_close

\* C13: a POST /api/upload whose Content-Type is
\* application/x-www-form-urlencoded and whose body is id=<n>&name=<s> is
\* answered with a JSON object that holds id <n> and name <s>.
C13_FormUploadObject ==
    (MatchServed /\ conn.data = upload_request(s_app_form, b_form)) =>
        /\ Answered
        /\ AnswerStatus = 200
        /\ outcome.value.written.body
              \in {form_object_text, form_object_number}

\* C14: POST /api/echo is answered with status 200 and the request body,
\* byte for byte, when the body matches id=<digits>&name=<alnum>, and with
\* status 403 for every body that does not match.
C14_EchoOrRefuse ==
    \A b \in Bodies :
        (MatchServed /\ conn.data = echo_request(b)
                     /\ f_error_txt \in DOMAIN files) =>
            /\ Answered
            /\ IF regex_is_match(b)
               THEN AnswerStatus = 200 /\ outcome.value.written.body = b
               ELSE AnswerStatus = 403

\* C15: a search whose id is no number is a recoverable error: the handler
\* returns an error value and never panics.
C15_BadIdIsAnError ==
    (Handled /\ handler = "match" /\ conn.data = search_request(q_bad_id)) =>
        outcome.kind = "Err"

\* the records of data/data.json that a well-formed query selects: those
\* whose id is the number of the query and whose name is its name; an absent
\* id or name counts as the empty text, which no record carries
wanted_id(q) == parse_u64(query_get(parse_query_params(q).value, k_id))
wanted_name(q) == query_get(parse_query_params(q).value, k_name)
query_of(q) == IF q = <<>> THEN <<>> ELSE Tail(q)
selected_records(q) ==
    IF q = <<>> \/ wanted_id(query_of(q)).kind # "Ok" THEN <<>>
    ELSE SelectSeq(serde_json_from_str(c_data_json).value.items,
            LAMBDA obj : /\ obj.id = wanted_id(query_of(q)).value
                         /\ obj.name = wanted_name(query_of(q)))

\* C16: a search treats an absent id or name as the empty text; it is
\* answered with status 200 and exactly the matching records when there are
\* any, and otherwise with status 404 and the fixed not-found JSON.
C16_SearchAnswers ==
    \A q \in Queries :
        (/\ MatchServed
         /\ conn.data = search_request(q)
         /\ q = <<>> \/ parse_query_params(query_of(q)).kind = "Ok"
         /\ {f_data_json, f_not_found_json} \subseteq DOMAIN files) =>
            /\ Answered
            /\ IF selected_records(q) # <<>>
               THEN /\ AnswerStatus = 200
                    /\ outcome.value.written.body
                          = serde_json_to_string(selected_records(q))
               ELSE /\ AnswerStatus = 404
                    /\ outcome.value.written.body = c_not_found_json

\* C17: once shutdown has begun, under fair scheduling of the workers, drop
\* eventually returns with all N workers exited: none stays blocked on the
\* queue lock or on the receive.
C17_ShutdownTerminates ==
    (mainPc = "join") ~> (mainPc = "done" /\ \A w \in Workers : wpc[w] = "exited")

Running == {t \in DOMAIN tasks : tasks[t].status = "running"}
AllBusy == \A w \in Workers : wpc[w] = "run"

\* C18: at most N tasks are running, each of them on a worker of its own, and
\* while all N workers are busy the tasks in the queue have not been started.
C18_AtMostNRunning ==
    /\ Cardinality(Running) <= NumWorkers
    /\ \A t \in Running : \E w \in Workers : wpc[w] = "run" /\ wjob[w] = t
    /\ \A v, w \in Workers :
          (wpc[v] = "run" /\ wpc[w] = "run" /\ wjob[v] = wjob[w]) => v = w
    /\ AllBusy =>
          \A i \in DOMAIN queue :
              tasks[queue[i]].status = "queued" /\ tasks[queue[i]].runs = 0

\* all N workers run a task, and a task sent meanwhile waits in the queue
C18_Witness ==
    /\ ~exited
    /\ AllBusy
    /\ Cardinality(Running) = NumWorkers
    /\ queue # <<>>
    /\ lastExecute = "Ok"

\* C19: while the pool is open, every call of execute enqueues its task and
\* returns Ok, whatever the queue holds and whatever the workers are doing.
C19_ExecuteEnqueues ==
    [][(sender = "Some" /\ \E job \in PoolJobs : Execute(job)) =>
          /\ lastExecute' = "Ok"
          /\ queue' = Append(queue, Len(tasks'))
          /\ Len(tasks') = Len(tasks) + 1]_vars

InDequeue == {w \in Workers : wpc[w] = "recv"}

\* C20: the lock is held exactly by the worker that is inside the dequeue
\* section, so by at most one worker and never by one that runs a task or
\* has ended: an idle worker finds the lock free whenever nobody dequeues.
C20_LockOnlyWhileDequeuing ==
    /\ Cardinality(InDequeue) <= 1
    /\ \A w \in Workers : (lock = w) <=> (wpc[w] = "recv")
    /\ InDequeue = {} => lock = 0
    /\ \A w \in Workers :
          (~exited /\ wpc[w] = "idle" /\ InDequeue = {}) => ENABLED Lock(w)

\* one worker runs a task, another has panicked inside one, and a third
\* party, an idle worker, is inside the dequeue section
C20_Witness ==
    /\ ~exited
    /\ \E v, w \in Workers :
          /\ wpc[v] \in {"run", "panicked"}
          /\ wpc[w] = "recv"
          /\ lock = w
          /\ tasks[wjob[v]].status \in {"running", "panicked"}

====
